---------------------------- MODULE Spec2Model ----------------------------
(***************************************************************************)
(* tex2text.py: batch extraction of LaTeX source archives to plain text.   *)
(*                                                                         *)
(* A Python str is modelled as a sequence of one-character strings, so     *)
(* that the regular expressions of the program are matched character by    *)
(* character.  Four state machines share the module:                       *)
(*   SpecText    the per-document text pipeline (clean_tex_content,        *)
(*               tex_to_text, clean_text) on bounded TeX inputs;           *)
(*   SpecProse   the same pipeline on bounded prose inputs;                *)
(*   SpecMain    find_main_tex_file on bounded document lists;             *)
(*   SpecDriver  the loop of extract_text_and_stats over a folder.         *)
(***************************************************************************)
EXTENDS Integers, Sequences, FiniteSets, TLC

VARIABLES
    \* ---- text pipeline (SpecText)
    src,            \* main_tex_content handed to clean_tex_content
    cur,            \* the value flowing through the pipeline
    stage,          \* "tex" | "precleaned" | "converted" | "cleaned"
    convRaised,     \* did LatexNodes2Text raise in tex_to_text
    \* ---- main-document selection (SpecMain)
    tex_files,      \* the list returned by read_tex_files
    main_tex,       \* the pair returned by find_main_tex_file
    selected,       \* has find_main_tex_file returned
    \* ---- batch driver (SpecDriver)
    run,            \* number of the current invocation of the driver
    force,          \* the --force flag of the current invocation
    pc,             \* position in extract_text_and_stats
    output_folder,  \* does the output folder exist
    todo,           \* entries of os.listdir(input_folder) not yet iterated
    file,           \* the entry being processed, NoFile between iterations
    out_txt,        \* stem -> content of output_folder/<stem>.txt
    scratch,        \* stem -> content of the directory input_folder/<stem>
    collected,      \* tex_files of the current archive, by origin
    clean_text_content, \* the normalized text of the current archive
    data,           \* the in-memory table: sequence of rows
    stats_file,     \* content of the statistics file
    exception,      \* the exception that left the function, "none" if none
    \* history of the current invocation
    existed,        \* stems whose output file existed when it began
    had_dir,        \* stems whose directory existed when it began
    prev_rows,      \* archives with a row in the previous invocation
    started,        \* stems whose processing began (not skipped)
    written,        \* stems whose output file was opened for writing
    stats_writes    \* number of times the statistics file was written

textVars == <<src, cur, stage, convRaised>>
mainVars == <<tex_files, main_tex, selected>>
driverVars ==
    <<run, force, pc, output_folder, todo, file, out_txt, scratch, collected,
      clean_text_content, data, stats_file, exception, existed, had_dir,
      prev_rows, started, written, stats_writes>>

-----------------------------------------------------------------------------
(* Bounds *)

MaxTexPieces == 6       \* pieces per generated TeX input
MaxPlainPieces == 6     \* pieces per generated prose input
MaxDocs == 3            \* documents per DocumentSet
MaxArchives == 2        \* .tar.gz files in the input folder
MaxRuns == 2            \* invocations of the driver on the same folders

-----------------------------------------------------------------------------
(* Character classes and literals of the regular expressions *)

Letter ==
    {"a", "b", "c", "d", "e", "f", "g", "h", "i", "j", "k", "l", "m",
     "n", "o", "p", "q", "r", "s", "t", "u", "v", "w", "x", "y", "z",
     "A", "B", "C", "D", "E", "F", "G", "H", "I", "J", "K", "L", "M",
     "N", "O", "P", "Q", "R", "S", "T", "U", "V", "W", "X", "Y", "Z"}

\* \s of a str pattern, and the characters str.strip() removes
Whitespace == {" ", "\t", "\n", "\r"}

BeginTable == <<"\\", "b", "e", "g", "i", "n", "{", "t", "a", "b", "l", "e", "}">>
EndTable == <<"\\", "e", "n", "d", "{", "t", "a", "b", "l", "e", "}">>
BeginTabular ==
    <<"\\", "b", "e", "g", "i", "n", "{", "t", "a", "b", "u", "l", "a", "r", "}">>
EndTabular == <<"\\", "e", "n", "d", "{", "t", "a", "b", "u", "l", "a", "r", "}">>
BeginFigure ==
    <<"\\", "b", "e", "g", "i", "n", "{", "f", "i", "g", "u", "r", "e", "}">>
EndFigure == <<"\\", "e", "n", "d", "{", "f", "i", "g", "u", "r", "e", "}">>
Documentclass ==
    <<"\\", "d", "o", "c", "u", "m", "e", "n", "t", "c", "l", "a", "s", "s">>
CiteOpen == <<"\\", "c", "i", "t", "e", "{">>
RefOpen == <<"\\", "r", "e", "f", "{">>
LabelOpen == <<"\\", "l", "a", "b", "e", "l", "{">>
BeginOpen == <<"\\", "b", "e", "g", "i", "n", "{">>
EndOpen == <<"\\", "e", "n", "d", "{">>
CitePlaceholder == <<"<", "c", "i", "t", ".", ">">>
RefPlaceholder == <<"<", "r", "e", "f", ">">>

\* U+FB01, the "fi" ligature, as one character
LigatureFi == "fi-ligature"

-----------------------------------------------------------------------------
(* Regular-expression matching on character sequences *)

Min(S) == CHOOSE k \in S : \A m \in S : k <= m
Max(S) == CHOOSE k \in S : \A m \in S : m <= k

\* the literal lit occurs in s at position i
MatchAt(s, i, lit) ==
    /\ i >= 1
    /\ i + Len(lit) - 1 <= Len(s)
    /\ \A k \in 1..Len(lit) : s[i + k - 1] = lit[k]

\* re.search(literal, s)
Contains(s, lit) == \E i \in 1..Len(s) : MatchAt(s, i, lit)

\* ".*?close" tried from position j: the position of the nearest close the
\* lazy dot can reach (it does not cross a newline without re.DOTALL), or 0
FindClose(s, j, close, dotall) ==
    LET at == {k \in j..Len(s) : MatchAt(s, k, close)}
    IN  IF at = {} THEN 0
        ELSE LET first == Min(at)
             IN  IF dotall \/ \A k \in j..(first - 1) : s[k] # "\n"
                 THEN first ELSE 0

\* "open.*?close" matched at position i: index of the last matched
\* character, or 0 when there is no match at i
SpanEnd(s, i, open, close, dotall) ==
    IF MatchAt(s, i, open)
    THEN LET j == FindClose(s, i + Len(open), close, dotall)
         IN  IF j > 0 THEN j + Len(close) - 1 ELSE 0
    ELSE 0

\* last index of the run of characters of class cls that starts at i
\* (i - 1 when s[i] is not in cls)
RunEnd(s, i, cls) ==
    Min({k \in i..(Len(s) + 1) : k = Len(s) + 1 \/ s[k] \notin cls}) - 1

\* r'\n\s*\n' at i: the greedy \s* takes the whole whitespace run and gives
\* back down to the last newline of it
ParagraphBreakEnd(s, i) ==
    IF s[i] = "\n"
    THEN LET e == RunEnd(s, i + 1, Whitespace)
             nl == {k \in (i + 1)..e : s[k] = "\n"}
         IN  IF nl = {} THEN 0 ELSE Max(nl)
    ELSE 0

\* r'\\[a-zA-Z]+\*?\{.*?\}' at i
CommandEnd(s, i) ==
    IF s[i] = "\\"
    THEN LET k == RunEnd(s, i + 1, Letter)
             p == IF k + 1 <= Len(s) /\ s[k + 1] = "*" THEN k + 2 ELSE k + 1
         IN  IF k >= i + 1 /\ p <= Len(s) /\ s[p] = "{"
             THEN FindClose(s, p + 1, <<"}">>, FALSE)
             ELSE 0
    ELSE 0

\* r'<cit.>' at i: the dot is a wildcard for any character but newline
CitTagEnd(s, i) ==
    IF /\ MatchAt(s, i, <<"<", "c", "i", "t">>)
       /\ i + 5 <= Len(s)
       /\ s[i + 4] # "\n"
       /\ s[i + 5] = ">"
    THEN i + 5 ELSE 0

\* r'<(https?://[^>]+)>' at i
UrlEnd(s, i) ==
    IF MatchAt(s, i, <<"<", "h", "t", "t", "p">>)
    THEN LET p == IF i + 5 <= Len(s) /\ s[i + 5] = "s" THEN i + 6 ELSE i + 5
             q == p + 3
         IN  IF MatchAt(s, p, <<":", "/", "/">>) /\ q <= Len(s) /\ s[q] # ">"
             THEN FindClose(s, q + 1, <<">">>, TRUE)
             ELSE 0
    ELSE 0

\* r'(\n\n)+' at i: the longest even number of newlines
NewlinePairsEnd(s, i) ==
    LET n == RunEnd(s, i, {"\n"}) - i + 1
    IN  IF n >= 2 THEN i + 2 * (n \div 2) - 1 ELSE 0

\* a literal at i
LiteralEnd(s, i, lit) ==
    IF MatchAt(s, i, lit) THEN i + Len(lit) - 1 ELSE 0

\* The patterns of the program, as records the substitution dispatches on
SpanPattern(open, close, dotall) ==
    [kind |-> "span", open |-> open, close |-> close, dotall |-> dotall]
LiteralPattern(lit) == [kind |-> "literal", lit |-> lit]
ParagraphBreakPattern == [kind |-> "parbreak"]
CommandPattern == [kind |-> "command"]
CitTagPattern == [kind |-> "cit"]
UrlPattern == [kind |-> "url"]
NewlinePairsPattern == [kind |-> "nlpairs"]

\* end of the match of pattern pat at i (0: no match at i)
MatchEnd(pat, s, i) ==
    CASE pat.kind = "span" -> SpanEnd(s, i, pat.open, pat.close, pat.dotall)
      [] pat.kind = "literal" -> LiteralEnd(s, i, pat.lit)
      [] pat.kind = "parbreak" -> ParagraphBreakEnd(s, i)
      [] pat.kind = "command" -> CommandEnd(s, i)
      [] pat.kind = "cit" -> CitTagEnd(s, i)
      [] pat.kind = "url" -> UrlEnd(s, i)
      [] pat.kind = "nlpairs" -> NewlinePairsEnd(s, i)

\* re.sub(pat, repl, s) from position i on: replace the non-overlapping
\* matches, leftmost first; group1 selects the replacement r'\1' of the URL
\* pattern, whose group is the match without its first and last character
RECURSIVE ReSub(_, _, _, _, _)
ReSub(pat, repl, group1, s, i) ==
    LET at == {k \in i..Len(s) : MatchEnd(pat, s, k) > 0}
    IN  IF at = {} THEN SubSeq(s, i, Len(s))
        ELSE LET k == Min(at)
                 e == MatchEnd(pat, s, k)
             IN  SubSeq(s, i, k - 1)
                     \o (IF group1 THEN SubSeq(s, k + 1, e - 1) ELSE repl)
                     \o ReSub(pat, repl, group1, s, e + 1)

\* re.sub(pat, repl, s)
re_sub(pat, repl, s) == ReSub(pat, repl, FALSE, s, 1)

\* str.strip()
strip(s) ==
    LET keep == {k \in 1..Len(s) : s[k] \notin Whitespace}
    IN  IF keep = {} THEN <<>>
        ELSE SubSeq(s, Min(keep), Max(keep))

-----------------------------------------------------------------------------
(* clean_tex_content *)

\* remove_pattern: re.sub(pattern, '', tex_content, flags=re.DOTALL)
remove_pattern(tex_content, open, close) ==
    re_sub(SpanPattern(open, close, TRUE), <<>>, tex_content)

\* the five passes with the inline-math pass moved to the front
clean_tex_content_math_first(tex_content) ==
    LET t0 == remove_pattern(tex_content, <<"$">>, <<"$">>)
        t1 == remove_pattern(t0, BeginTable, EndTable)
        t2 == remove_pattern(t1, BeginTabular, EndTabular)
        t3 == remove_pattern(t2, BeginFigure, EndFigure)
        t4 == remove_pattern(t3, <<"$", "$">>, <<"$", "$">>)
    IN  t4

clean_tex_content(tex_content) ==
    LET t1 == remove_pattern(tex_content, BeginTable, EndTable)
        t2 == remove_pattern(t1, BeginTabular, EndTabular)
        t3 == remove_pattern(t2, BeginFigure, EndFigure)
        t4 == remove_pattern(t3, <<"$", "$">>, <<"$", "$">>)
        t5 == remove_pattern(t4, <<"$">>, <<"$">>)
    IN  t5

-----------------------------------------------------------------------------
(* fix_text_issues, tex_to_text *)

\* ftfy.fix_text: of its repairs the model keeps the one the docstring
\* names, the expansion of a ligature; text without ligatures is unchanged
fix_text_issues(text) ==
    re_sub(LiteralPattern(<<LigatureFi>>), <<"f", "i">>, text)

\* tex_to_text: the converter's result, or the input when it raised
tex_to_text(tex_content, raised, converted) ==
    IF raised THEN tex_content ELSE converted

-----------------------------------------------------------------------------
(* clean_text *)

\* line 169: re.sub(r'(\n\s*\n)', '\n\n', text)
preserve_paragraphs(text) ==
    re_sub(ParagraphBreakPattern, <<"\n", "\n">>, text)

\* lines 172-177: \cite and \ref become placeholders; \label, \begin, \end
\* and any other one-argument command are deleted
remove_commands(text) ==
    LET t3 == re_sub(SpanPattern(CiteOpen, <<"}">>, FALSE), CitePlaceholder, text)
        t4 == re_sub(SpanPattern(RefOpen, <<"}">>, FALSE), RefPlaceholder, t3)
        t5 == re_sub(SpanPattern(LabelOpen, <<"}">>, FALSE), <<>>, t4)
        t6 == re_sub(SpanPattern(BeginOpen, <<"}">>, FALSE), <<>>, t5)
        t7 == re_sub(SpanPattern(EndOpen, <<"}">>, FALSE), <<>>, t6)
    IN  re_sub(CommandPattern, <<>>, t7)

\* the variant of the normalizer that leaves the placeholders in the text
keep_tags(text) == text

\* lines 180-181: re.sub(r'<cit.>', '', text); re.sub(r'<ref>', '', text)
remove_tags(text) ==
    re_sub(LiteralPattern(RefPlaceholder), <<>>,
           re_sub(CitTagPattern, <<>>, text))

\* line 184: re.sub(r'<(https?://[^>]+)>', r'\1', text)
unbracket_urls(text) == ReSub(UrlPattern, <<>>, TRUE, text, 1)

\* line 187: re.sub(r'(?<!\n)\n(?!\n)', ' ', text): the lookarounds read
\* the text being scanned, so the substitution is pointwise
restore_single_newlines(text) ==
    [k \in 1..Len(text) |->
        IF /\ text[k] = "\n"
           /\ (k = 1 \/ text[k - 1] # "\n")
           /\ (k = Len(text) \/ text[k + 1] # "\n")
        THEN " " ELSE text[k]]

\* line 190: re.sub(r'(\n\n)+', '\n\n', text)
collapse_blocks(text) ==
    re_sub(NewlinePairsPattern, <<"\n", "\n">>, text)

clean_text(text) ==
    LET t1 == fix_text_issues(text)
        t2 == preserve_paragraphs(t1)
        t8 == remove_commands(t2)
        t10 == remove_tags(t8)
        t11 == unbracket_urls(t10)
        t12 == restore_single_newlines(t11)
        t13 == collapse_blocks(t12)
    IN  strip(t13)

-----------------------------------------------------------------------------
(* find_main_tex_file *)

\* a SourceDocument is a pair <<file name, content>>
EmptyDocument == <<"", <<>>>>

HasDocumentclass(doc) == Contains(doc[2], Documentclass)

\* the fallback taking the last document instead of the first
find_main_tex_file_last(files) ==
    LET hits == {k \in 1..Len(files) : HasDocumentclass(files[k])}
    IN  IF hits # {}
        THEN files[Min(hits)]
        ELSE IF Len(files) > 0 THEN files[Len(files)] ELSE EmptyDocument

find_main_tex_file(files) ==
    LET hits == {k \in 1..Len(files) : HasDocumentclass(files[k])}
    IN  IF hits # {}
        THEN files[Min(hits)]
        ELSE IF Len(files) > 0 THEN files[1] ELSE EmptyDocument

-----------------------------------------------------------------------------
(* Bounded inputs *)

RECURSIVE Flatten(_)
Flatten(ps) == IF ps = <<>> THEN <<>> ELSE Head(ps) \o Flatten(Tail(ps))

PieceTexts(pieces, n) ==
    {Flatten(ps) : ps \in UNION {[1..k -> pieces] : k \in 0..n}}

Cite == CiteOpen \o <<"k", "}">>

TexPieces == {<<"$">>, <<"x">>, BeginTable, EndTable}
PlainPieces == {<<"x">>, <<" ">>, <<"\n">>, Cite}

ScenarioInput ==
    <<"S", "e", "e", " ", "\\", "c", "i", "t", "e", "{", "f", "o", "o",
      "2", "0", "2", "0", "}", " ", "a", "n", "d", " ", "T", "a", "b", "l",
      "e", "~", "1", ".", "\n", "\n", "\\", "b", "e", "g", "i", "n", "{",
      "t", "a", "b", "l", "e", "}", "\\", "b", "e", "g", "i", "n", "{",
      "t", "a", "b", "u", "l", "a", "r", "}", "A", " ", "&", " ", "B",
      "\\", "e", "n", "d", "{", "t", "a", "b", "u", "l", "a", "r", "}",
      "\\", "e", "n", "d", "{", "t", "a", "b", "l", "e", "}", "\n", "\n",
      "R", "e", "s", "u", "l", "t", ":", " ", "$", "x", "=", "1", "$", " ",
      "h", "o", "l", "d", "s", ".">>

\* TeX documents: math, tables and text
TexInputs == PieceTexts(TexPieces, MaxTexPieces) \cup {ScenarioInput}

\* documents of prose with citation commands, line and paragraph breaks
ProseInputs == PieceTexts(PlainPieces, MaxPlainPieces)

\* results a successful LatexNodes2Text conversion may hand back
ConverterOutputs ==
    {<<"o", LigatureFi, "c", "e">>,
     <<"<", "c", "i", "t", ".", ">", "\n", "x">>}

DocNames == {"a.tex", "b.tex"}
DocContents ==
    {<<"x">>, SubSeq(Documentclass, 1, 9), Documentclass,
     <<"%">> \o Documentclass \o <<"{", "x", "}">>}
Documents == DocNames \X DocContents
DocumentSets == UNION {[1..k -> Documents] : k \in 0..MaxDocs}

-----------------------------------------------------------------------------
(* The text pipeline of one archive: lines 231-233 *)

MainIdle == tex_files = <<>> /\ main_tex = EmptyDocument /\ selected = FALSE
TextIdle == src = <<>> /\ cur = <<>> /\ stage = "idle" /\ convRaised = FALSE
DriverIdle ==
    /\ run = 0 /\ force = FALSE /\ pc = "idle" /\ output_folder = FALSE
    /\ todo = {} /\ file = <<0, "">> /\ out_txt = <<>> /\ scratch = <<>>
    /\ collected = {} /\ clean_text_content = <<"none", FALSE>> /\ data = <<>>
    /\ stats_file = <<>>
    /\ exception = "none" /\ existed = {} /\ had_dir = {}
    /\ prev_rows = {} /\ started = {} /\ written = {} /\ stats_writes = 0

InitText ==
    /\ src \in TexInputs
    /\ cur = src
    /\ stage = "tex"
    /\ convRaised = FALSE
    /\ MainIdle
    /\ DriverIdle

InitProse ==
    /\ src \in ProseInputs
    /\ cur = src
    /\ stage = "tex"
    /\ convRaised = FALSE
    /\ MainIdle
    /\ DriverIdle

\* clean_tex = clean_tex_content(main_tex_content, debug)
PreClean ==
    /\ stage = "tex"
    /\ cur' = clean_tex_content(cur)
    /\ stage' = "precleaned"
    /\ UNCHANGED <<src, convRaised, mainVars, driverVars>>

\* text = tex_to_text(clean_tex)
Convert ==
    /\ stage = "precleaned"
    /\ \E raised \in BOOLEAN, converted \in ConverterOutputs :
          /\ cur' = tex_to_text(cur, raised, converted)
          /\ convRaised' = raised
    /\ stage' = "converted"
    /\ UNCHANGED <<src, mainVars, driverVars>>

\* clean_text_content = clean_text(text)
Normalize ==
    /\ stage = "converted"
    /\ cur' = clean_text(cur)
    /\ stage' = "cleaned"
    /\ UNCHANGED <<src, convRaised, mainVars, driverVars>>

NextText == PreClean \/ Convert \/ Normalize

vars == <<textVars, mainVars, driverVars>>

SpecText == InitText /\ [][NextText]_vars

SpecProse == InitProse /\ [][NextText]_vars

-----------------------------------------------------------------------------
(* Main-document selection: line 229 *)

InitMain ==
    /\ tex_files \in DocumentSets
    /\ main_tex = EmptyDocument
    /\ selected = FALSE
    /\ TextIdle
    /\ DriverIdle

\* main_tex_file, main_tex_content = find_main_tex_file(tex_files)
SelectMain ==
    /\ ~selected
    /\ main_tex' = find_main_tex_file(tex_files)
    /\ selected' = TRUE
    /\ UNCHANGED <<tex_files, textVars, driverVars>>

NextMain == SelectMain

SpecMain == InitMain /\ [][NextMain]_vars

-----------------------------------------------------------------------------
(* Properties of find_main_tex_file *)

MarkerIndexes(files) == {k \in 1..Len(files) : HasDocumentclass(files[k])}

Reorder(files, q) == [k \in 1..Len(files) |-> files[q[k]]]

\* C4: find_main_tex_file returns the first document, in list order, whose
\* content contains \documentclass; the first document of the list when no
\* document contains it; the empty document ("", "") when the list is empty;
\* and when exactly one document contains it, that document is returned for
\* every ordering of the list.
MainDocumentSelection ==
    selected =>
        /\ Len(tex_files) = 0 => main_tex = EmptyDocument
        /\ (Len(tex_files) > 0 /\ MarkerIndexes(tex_files) = {})
              => main_tex = tex_files[1]
        /\ MarkerIndexes(tex_files) # {} =>
              \E k \in MarkerIndexes(tex_files) :
                  /\ main_tex = tex_files[k]
                  /\ \A m \in 1..(k - 1) : ~HasDocumentclass(tex_files[m])
        /\ Cardinality(MarkerIndexes(tex_files)) = 1 =>
              \A q \in Permutations(1..Len(tex_files)) :
                  find_main_tex_file(Reorder(tex_files, q)) = main_tex

\* the selection has run on three documents of which only the last one has
\* the marker
MainDocumentSelectionWitness ==
    /\ selected
    /\ Len(tex_files) = 3
    /\ MarkerIndexes(tex_files) = {3}
    /\ main_tex = tex_files[3]

-----------------------------------------------------------------------------
(* Properties of clean_tex_content *)

\* u is obtained from v by deleting characters
RECURSIVE IsSubseqFrom(_, _, _, _)
IsSubseqFrom(u, i, v, j) ==
    IF i > Len(u) THEN TRUE
    ELSE IF j > Len(v) THEN FALSE
    ELSE IF u[i] = v[j] THEN IsSubseqFrom(u, i + 1, v, j + 1)
    ELSE IsSubseqFrom(u, i, v, j + 1)

IsSubseq(u, v) == IsSubseqFrom(u, 1, v, 1)

Count(s, c) == Cardinality({k \in 1..Len(s) : s[k] = c})

\* the non-nested table spans of s, as pairs <<first index, last index>>:
\* a \begin{table}, the nearest \end{table} after it, no \begin{table} between
TableSpans(s) ==
    {sp \in (1..Len(s)) \X (1..Len(s)) :
        /\ MatchAt(s, sp[1], BeginTable)
        /\ sp[2] - Len(EndTable) + 1 >= sp[1] + Len(BeginTable)
        /\ FindClose(s, sp[1] + Len(BeginTable), EndTable, TRUE)
              = sp[2] - Len(EndTable) + 1
        /\ \A k \in (sp[1] + 1)..sp[2] : ~MatchAt(s, k, BeginTable)}

\* the span encloses an inline-math expression $...$
EnclosesInlineMath(s, sp) ==
    \E a, b \in sp[1]..sp[2] :
        /\ a + 1 < b
        /\ s[a] = "$"
        /\ s[b] = "$"
        /\ \A k \in (a + 1)..(b - 1) : s[k] # "$"

WithoutSpan(s, sp) == SubSeq(s, 1, sp[1] - 1) \o SubSeq(s, sp[2] + 1, Len(s))

\* C5: clean_tex_content removes table spans before any math span: for every
\* non-nested \begin{table}...\end{table} span of the input that encloses an
\* inline-math expression, the output is what is left of the input after
\* deleting the whole span and possibly more characters, also when an
\* unpaired $ precedes the table; and after the last pass no $...$ pair is
\* left to remove.
PreCleanRemovesWholeTable ==
    stage = "precleaned" =>
        /\ \A sp \in TableSpans(src) :
              EnclosesInlineMath(src, sp) => IsSubseq(cur, WithoutSpan(src, sp))
        /\ Count(cur, "$") <= 1

\* an unpaired $ before a table that encloses inline math has been cleaned
PreCleanRemovesWholeTableWitness ==
    /\ stage = "precleaned"
    /\ \E sp \in TableSpans(src) :
          /\ EnclosesInlineMath(src, sp)
          /\ Count(SubSeq(src, 1, sp[1] - 1), "$") = 1
          /\ cur = <<"$">>

-----------------------------------------------------------------------------
(* Properties of clean_text *)

\* C6: the normalizer is idempotent: clean_text applied to its own output
\* returns that output unchanged.
NormalizerIdempotent ==
    stage = "cleaned" => clean_text(cur) = cur

\* the maximal whitespace runs of s, as pairs <<first index, last index>>
WhitespaceRuns(s) ==
    {r \in (1..Len(s)) \X (1..Len(s)) :
        /\ s[r[1]] \in Whitespace
        /\ r[1] = 1 \/ s[r[1] - 1] \notin Whitespace
        /\ r[2] = RunEnd(s, r[1], Whitespace)}

\* C7: the output of clean_text has no doubled blank-line run: a whitespace
\* run of the output that contains a newline contains exactly one "\n\n",
\* so there are never three or more consecutive newlines, nor two blank-line
\* groups separated only by spaces.
NoDoubledBlankLines ==
    stage = "cleaned" =>
        \A r \in WhitespaceRuns(cur) :
            LET nl == {k \in r[1]..r[2] : cur[k] = "\n"}
            IN  nl # {} => \E k \in nl : nl = {k, k + 1}

ScenarioClaimed ==
    <<"S", "e", "e", " ", " ", "a", "n", "d", " ", "T", "a", "b", "l", "e",
      "~", "1", ".", "\n", "\n", "R", "e", "s", "u", "l", "t", ":", " ",
      "h", "o", "l", "d", "s", ".">>

ScenarioActual ==
    <<"S", "e", "e", " ", " ", "a", "n", "d", " ", "T", "a", "b", "l", "e",
      "~", "1", ".", "\n", "\n", "R", "e", "s", "u", "l", "t", ":", " ",
      " ", "h", "o", "l", "d", "s", ".">>

\* the scenario text went through clean_tex_content, a conversion that gave
\* its input back, and clean_text
ScenarioDone ==
    /\ src = ScenarioInput
    /\ stage = "cleaned"
    /\ convRaised

\* C8 as stated: the scenario text yields "See  and Table~1.\n\nResult: holds."
\* with a single space after "Result:".
ScenarioAsStated == ScenarioDone => cur = ScenarioClaimed

\* C8: the scenario text yields "See  and Table~1.\n\nResult:  holds.": two
\* spaces after "See" and two spaces after "Result:", the two that surrounded
\* the removed $x=1$.
ScenarioResult == ScenarioDone => cur = ScenarioActual

ScenarioWitness == ScenarioDone /\ Len(cur) = Len(ScenarioActual)

-----------------------------------------------------------------------------
(* The batch driver: extract_text_and_stats *)

\* An entry of the input folder is a pair <<stem, suffix>>; file[:-7] of an
\* archive is its stem.
Stems == 1..MaxArchives
Entries == {<<n, ".tar.gz">> : n \in Stems} \cup {<<0, ".md">>}
NoFile == <<0, "">>

\* file.endswith(".tar.gz")
IsArchive(e) == e[2] = ".tar.gz"

\* A text in memory is a pair <<origin, raw>>: the origin of the main
\* document it was made from, "none" (the empty document), "stale" (a .tex
\* file that was in the scratch directory before the invocation) or
\* "extracted", and whether the TeX-to-text conversion failed and the text is
\* pre-cleaned TeX.
NoText == <<"none", FALSE>>

\* The content of an output file is "absent" (no file), "partial" (opened
\* for writing, not completely written), or the origin of the text written
\* to it: texts made from the same document are one content.
Absent == "absent"
Partial == "partial"
Written(txt) == txt[1]

\* os.path.exists(output_txt_file)
Exists(f) == f # Absent

\* A scratch directory is the set of what is there: {} when it does not
\* exist, else "dir" and the origins of the .tex files below it: "extracted"
\* by the current invocation, or "stale", left there by an earlier one.
NoDir == {}
EmptyDir == {"dir"}

StaleDir == {"dir", "stale"}

\* the directory as the next invocation finds it
Aged(dir) ==
    IF "extracted" \in dir THEN (dir \ {"extracted"}) \cup {"stale"} ELSE dir

Range(s) == {s[k] : k \in 1..Len(s)}

InitDriver ==
    /\ run = 1
    /\ force \in BOOLEAN
    /\ pc = "start"
    /\ output_folder \in BOOLEAN
    /\ todo = {}
    /\ file = NoFile
    /\ out_txt = [s \in Stems |-> Absent]
    \* a directory named like the stem of the first archive may lie in the
    \* input folder before the first invocation
    /\ scratch \in {[s \in Stems |-> IF s = d THEN StaleDir ELSE NoDir] :
                        d \in {0, 1}}
    /\ collected = {}
    /\ clean_text_content = NoText
    /\ data = <<>>
    /\ stats_file = <<>>
    /\ exception = "none"
    /\ existed = {}
    /\ had_dir = {s \in Stems : scratch[s] # NoDir}
    /\ prev_rows = {}
    /\ started = {}
    /\ written = {}
    /\ stats_writes = 0
    /\ TextIdle
    /\ MainIdle

\* lines 208-212: create the output folder, data = [], os.listdir
EnsureOutputFolder ==
    /\ pc = "start"
    /\ output_folder' = TRUE
    /\ data' = <<>>
    /\ todo' = Entries
    /\ pc' = "loop"
    /\ UNCHANGED <<run, force, file, out_txt, scratch, collected,
                   clean_text_content, stats_file, exception, existed, had_dir, prev_rows, started, written,
                   stats_writes>>
    /\ UNCHANGED <<textVars, mainVars>>

\* line 213: an entry that is not a .tar.gz file is passed over
IgnoreEntry ==
    /\ pc = "loop"
    /\ \E e \in todo :
          /\ ~IsArchive(e)
          /\ todo' = todo \ {e}
    /\ UNCHANGED <<run, force, pc, output_folder, file, out_txt, scratch,
                   collected, clean_text_content, data, stats_file,
                   exception, existed, had_dir, prev_rows,
                   started, written, stats_writes>>
    /\ UNCHANGED <<textVars, mainVars>>

\* the skip test that never skips
ShouldSkipNever(exists, forced) == FALSE

\* line 218: os.path.exists(output_txt_file) and not force
ShouldSkip(exists, forced) == exists /\ ~forced

\* lines 218-220: skip an archive whose output file exists
SkipProcessed ==
    /\ pc = "loop"
    /\ \E e \in todo :
          /\ IsArchive(e)
          /\ ShouldSkip(Exists(out_txt[e[1]]), force)
          /\ todo' = todo \ {e}
    /\ UNCHANGED <<run, force, pc, output_folder, file, out_txt, scratch,
                   collected, clean_text_content, data, stats_file,
                   exception, existed, had_dir, prev_rows,
                   started, written, stats_writes>>
    /\ UNCHANGED <<textVars, mainVars>>

\* lines 214-225: the paths of the archive; the scratch directory is created
\* unless something of that name exists
BeginArchive ==
    /\ pc = "loop"
    /\ \E e \in todo :
          /\ IsArchive(e)
          /\ ~ShouldSkip(Exists(out_txt[e[1]]), force)
          /\ todo' = todo \ {e}
          /\ file' = e
          /\ scratch' = [scratch EXCEPT
                            ![e[1]] = IF @ = NoDir THEN EmptyDir ELSE @]
          /\ started' = started \cup {e[1]}
    /\ pc' = "extract"
    /\ UNCHANGED <<run, force, output_folder, out_txt, collected,
                   clean_text_content, data, stats_file, exception,
                   existed, had_dir, prev_rows, written,
                   stats_writes>>
    /\ UNCHANGED <<textVars, mainVars>>

\* extract_tarfile: what the directory holds afterwards.  "invalid": not a
\* tar file, nothing is extracted; "error": tarfile raised and the exception
\* was caught, with or without .tex files already on disk (landed);
\* "ok": extracted, the archive holding .tex files or not (landed).
extract_tarfile(dir, outcome, landed) ==
    IF outcome = "invalid" THEN dir
    ELSE IF landed THEN dir \cup {"extracted"} ELSE dir

\* line 226
ExtractTarfile ==
    /\ pc = "extract"
    /\ \E outcome \in {"invalid", "error", "ok"}, landed \in BOOLEAN :
          scratch' = [scratch EXCEPT
                         ![file[1]] = extract_tarfile(@, outcome, landed)]
    /\ pc' = "read"
    /\ UNCHANGED <<run, force, output_folder, todo, file, out_txt, collected,
                   clean_text_content, data, stats_file, exception,
                   existed, had_dir, prev_rows, started,
                   written, stats_writes>>
    /\ UNCHANGED <<textVars, mainVars>>

\* read_tex_files: every .tex file below the directory, whatever its origin
read_tex_files(dir) == dir \ {"dir"}

\* line 228: the documents are collected, or reading one of them raises
\* (open fails, or no encoding decodes it) and the exception leaves the
\* function
ReadTexFiles ==
    /\ pc = "read"
    /\ \/ /\ collected' = read_tex_files(scratch[file[1]])
          /\ pc' = "pipeline"
          /\ UNCHANGED exception
       \/ /\ read_tex_files(scratch[file[1]]) # {}
          /\ exception' = "read"
          /\ pc' = "crashed"
          /\ UNCHANGED collected
    /\ UNCHANGED <<run, force, output_folder, todo, file, out_txt, scratch,
                   clean_text_content, data, stats_file, existed, had_dir, prev_rows, started, written,
                   stats_writes>>
    /\ UNCHANGED <<textVars, mainVars>>

\* lines 229-238: the main document is one of the collected documents, or the
\* empty document; it is pre-cleaned, converted (the conversion may fail and
\* fall back to the pre-cleaned TeX) and normalized
CleanAndConvert ==
    /\ pc = "pipeline"
    /\ \E origin \in (IF collected = {} THEN {"none"} ELSE collected),
          conversion_failed \in BOOLEAN :
          clean_text_content' = <<origin, conversion_failed>>
    /\ pc' = "write"
    /\ UNCHANGED <<run, force, output_folder, todo, file, out_txt, scratch,
                   collected, data, stats_file, exception, existed, had_dir, prev_rows, started, written,
                   stats_writes>>
    /\ UNCHANGED <<textVars, mainVars>>

\* the write whose failure is swallowed: the function goes on to the append
WriteOutputSwallowing ==
    /\ pc = "write"
    /\ \/ /\ out_txt' = [out_txt EXCEPT
                           ![file[1]] = Written(clean_text_content)]
          /\ written' = written \cup {file[1]}
       \/ /\ out_txt' = [out_txt EXCEPT ![file[1]] = Partial]
          /\ written' = written \cup {file[1]}
    /\ pc' = "append"
    /\ UNCHANGED <<run, force, output_folder, todo, file, scratch, collected,
                   clean_text_content, data, stats_file, exception,
                   existed, had_dir, prev_rows, started,
                   stats_writes>>
    /\ UNCHANGED <<textVars, mainVars>>

\* lines 240-241: open the output file for writing and write the text; open
\* may raise (the file is untouched), write may raise (the file is
\* truncated or partly written); either exception leaves the function
WriteOutput ==
    /\ pc = "write"
    /\ \/ /\ out_txt' = [out_txt EXCEPT
                           ![file[1]] = Written(clean_text_content)]
          /\ written' = written \cup {file[1]}
          /\ pc' = "append"
          /\ UNCHANGED exception
       \/ /\ exception' = "write"
          /\ pc' = "crashed"
          /\ UNCHANGED <<out_txt, written>>
       \/ /\ out_txt' = [out_txt EXCEPT ![file[1]] = Partial]
          /\ written' = written \cup {file[1]}
          /\ exception' = "write"
          /\ pc' = "crashed"
    /\ UNCHANGED <<run, force, output_folder, todo, file, scratch, collected,
                   clean_text_content, data, stats_file, existed, had_dir, prev_rows, started, stats_writes>>
    /\ UNCHANGED <<textVars, mainVars>>

\* lines 243-249: data.append(the row of this archive)
AppendRow ==
    /\ pc = "append"
    /\ data' = Append(data, file[1])
    /\ pc' = "rmtree"
    /\ UNCHANGED <<run, force, output_folder, todo, file, out_txt, scratch,
                   collected, clean_text_content, stats_file, exception,
                   existed, had_dir, prev_rows, started,
                   written, stats_writes>>
    /\ UNCHANGED <<textVars, mainVars>>

\* line 252: shutil.rmtree(extract_path) deletes the directory with all it
\* holds, or raises, and the exception leaves the function; the locals of
\* the iteration are dead after its last statement and are cleared
RemoveScratch ==
    /\ pc = "rmtree"
    /\ \/ /\ scratch' = [scratch EXCEPT ![file[1]] = NoDir]
          /\ file' = NoFile
          /\ collected' = {}
          /\ clean_text_content' = NoText
          /\ pc' = "loop"
          /\ UNCHANGED exception
       \/ /\ exception' = "rmtree"
          /\ pc' = "crashed"
          /\ UNCHANGED <<scratch, file, collected, clean_text_content>>
    /\ UNCHANGED <<run, force, output_folder, todo, out_txt, data,
                   stats_file, existed, had_dir, prev_rows, started,
                   written, stats_writes>>
    /\ UNCHANGED <<textVars, mainVars>>

\* lines 254-256: after the loop the table is written to the statistics file
WriteStats ==
    /\ pc = "loop"
    /\ todo = {}
    /\ stats_file' = data
    /\ stats_writes' = stats_writes + 1
    /\ pc' = "done"
    /\ UNCHANGED <<run, force, output_folder, todo, file, out_txt, scratch,
                   collected, clean_text_content, data, exception,
                   existed, had_dir, prev_rows, started,
                   written>>
    /\ UNCHANGED <<textVars, mainVars>>

\* lines 258-267: the program is invoked again on the same folders, after it
\* returned or was ended by an exception
Rerun ==
    /\ pc \in {"done", "crashed"}
    /\ run < MaxRuns
    /\ run' = run + 1
    /\ force' \in BOOLEAN
    /\ pc' = "start"
    /\ todo' = {}
    /\ file' = NoFile
    /\ collected' = {}
    /\ clean_text_content' = NoText
    /\ data' = <<>>
    /\ exception' = "none"
    /\ existed' = {s \in Stems : Exists(out_txt[s])}
    /\ scratch' = [s \in Stems |-> Aged(scratch[s])]
    /\ had_dir' = {s \in Stems : scratch[s] # NoDir}
    /\ prev_rows' = Range(data)
    /\ started' = {}
    /\ written' = {}
    /\ stats_writes' = 0
    /\ UNCHANGED <<output_folder, out_txt, stats_file>>
    /\ UNCHANGED <<textVars, mainVars>>

NextDriver ==
    \/ EnsureOutputFolder
    \/ IgnoreEntry
    \/ SkipProcessed
    \/ BeginArchive
    \/ ExtractTarfile
    \/ ReadTexFiles
    \/ CleanAndConvert
    \/ WriteOutput
    \/ AppendRow
    \/ RemoveScratch
    \/ WriteStats
    \/ Rerun

SpecDriver == InitDriver /\ [][NextDriver]_vars

-----------------------------------------------------------------------------
(* Properties of the batch driver *)

Complete(f) == f # Absent /\ f # Partial

\* what holds of an archive that an invocation without force found with its
\* output file in place
Skipped(s) ==
    /\ s \notin started
    /\ s \notin written
    /\ s \notin Range(data)
    /\ pc = "done" => s \notin Range(stats_file)

\* C1: without force an archive whose output file existed when the
\* invocation began is skipped: nothing is extracted for it, its output file
\* is not opened for writing and no step changes its content or its scratch
\* directory, and it gets no row; so an invocation without force that
\* follows another one leaves the output files of the archives that had a
\* row as they were, and its statistics file has no row for them.
SkipIsIdempotent ==
    [][(~force' /\ run' = run) =>
           \A s \in existed' \cup prev_rows' :
               /\ Skipped(s)'
               /\ out_txt'[s] = out_txt[s]
               /\ scratch'[s] = scratch[s]]_vars

\* a second invocation without force has finished after a first one that
\* processed every archive: its statistics table is empty
SkipIsIdempotentWitness ==
    /\ run = 2
    /\ ~force
    /\ pc = "done"
    /\ prev_rows = Stems
    /\ stats_writes = 1
    /\ stats_file = <<>>

\* C2: whatever archives are invalid or corrupt, whatever conversions fail
\* and whatever scratch directories cannot be deleted, the driver is not
\* ended by an exception, and when it has finished the statistics file holds
\* exactly one row for every archive that was not skipped.
BatchCompletes ==
    /\ pc = "crashed" => exception \in {"read", "write"}
    /\ pc = "done" =>
          /\ Range(stats_file) = started
          /\ Len(stats_file) = Cardinality(started)

\* C3: the scratch directory of every archive whose processing began is
\* deleted when that processing is over, also when reading, converting or
\* writing failed; none is left when the driver stops.
ScratchCleanedUp ==
    (pc \in {"loop", "done", "crashed"} /\ exception # "rmtree") =>
        \A s \in started : scratch[s] = NoDir

\* C9: at every point of an invocation each row of the table belongs to an
\* archive whose output file has been completely written by this invocation,
\* no archive has two rows, and the statistics file is written once, after
\* the last entry of the folder has been handled, with the table as content.
RowsFollowWrites ==
    /\ \A s \in Range(data) : s \in written /\ Complete(out_txt[s])
    /\ pc = "append" => file[1] \in written /\ Complete(out_txt[file[1]])
    /\ Cardinality(Range(data)) = Len(data)
    /\ stats_writes <= 1
    /\ stats_writes = 1 <=> pc = "done"
    /\ pc = "done" => todo = {} /\ file = NoFile /\ stats_file = data

\* an invocation has finished with a row for each of two archives
RowsFollowWritesWitness ==
    /\ pc = "done"
    /\ Len(data) >= 2
    /\ stats_writes = 1
    /\ stats_file = data

\* C10: a directory input_folder/<stem> that existed before the invocation is
\* not deleted by it, and no file that was in it before the invocation is
\* among the documents collected for the archive.
ScratchFrame ==
    /\ \A s \in had_dir : scratch[s] # NoDir
    /\ "stale" \notin collected

=============================================================================
